---- MODULE Spec2Model ----
(***************************************************************************)
(* A model of pageres (index.js): the Pageres orchestrator, its source     *)
(* iteration, the two size lookups, job generation, the renderer           *)
(* subprocess' standard-error handler and the save stage.                  *)
(*                                                                         *)
(* Strings that the code inspects are modelled by what the code looks at:  *)
(*   - a size token is a sequence of characters, so that the resolution    *)
(*     pattern /^\d{3,4}x\d{3,4}$/i is computed and not assumed;           *)
(*   - a chunk of standard-error text is a sequence of lexemes (the        *)
(*     'WARN: ' prefix, the ' phantomjs[' banner mark, a newline, plain    *)
(*     text), so that the three tests of the 'data' handler are computed   *)
(*     on the whole chunk as the code computes them.                       *)
(* Options, URL normalisation and file naming do not influence any         *)
(* control flow of the orchestrator and are not part of the model.         *)
(***************************************************************************)
EXTENDS Naturals, Sequences, FiniteSets

(***************************************************************************)
(* Bounds of the model.                                                    *)
(***************************************************************************)
MaxSrc == 2      \* number of src() registrations before run()
MaxJobs == 2     \* number of jobs generated on one orchestrator
MaxRuns == 2     \* number of calls of run() on one orchestrator
MaxEvents == 1   \* number of stderr chunks and of failures of a lookup, of
                 \* mkdirp or of a write in one run

(***************************************************************************)
(* Values.                                                                 *)
(***************************************************************************)
Undefined == "undefined"

R1024x768 == <<"1", "0", "2", "4", "x", "7", "6", "8">>
R320x568 == <<"3", "2", "0", "x", "5", "6", "8">>
W3counter == <<"w", "3", "c", "o", "u", "n", "t", "e", "r">>
Iphone5s == <<"i", "p", "h", "o", "n", "e", "5", "s">>

Digit == {"0", "1", "2", "3", "4", "5", "6", "7", "8", "9"}

\* the sizes arguments given to src() with a url
TokenLists ==
  { <<R1024x768, R1024x768>>,
    <<W3counter>>,
    <<R1024x768, Iphone5s>>,
    <<W3counter, Iphone5s>> }

\* the arguments given to src(): a url with sizes, or no url
SrcArgs ==
  {[url |-> "todomvc.com", sizes |-> t] : t \in TokenLists}
    \cup {[url |-> Undefined, sizes |-> <<R1024x768>>]}

\* what get-res can call back with (a list of {item: size})
GetResResults ==
  { <<R1024x768, R320x568>>,
    <<R1024x768, R1024x768>> }

\* what viewport-list can call back with (a list of {size: size})
ViewportResults ==
  { <<R320x568>>,
    <<R1024x768>> }

\* lexemes of the renderer's standard error
WARN == "WARN: "
BANNER == " phantomjs["
NL == "\n"
TEXT == "slow page"

\* the chunks a 'data' event of cp.stderr can deliver
DiagChunks ==
  { <<WARN, TEXT>>,
    <<BANNER>>,
    <<TEXT>>,
    <<NL>>,
    <<WARN, TEXT, NL, BANNER>>,
    <<WARN, TEXT, NL, TEXT>> }

\* errors
Null == [name |-> "null", data |-> <<>>]
Err(name) == [name |-> name, data |-> <<>>]
NewError(data) == [name |-> "Error", data |-> data]

VARIABLES
  phantomjs,   \* require('phantomjs').path is set
  _src, _dest, _items, _sizes, _urls, stats,
  phase,       \* "idle", "iterating", "running", "crashed"
  srcI,        \* the index of the source the loop of eachAsync is at
  srcEach,     \* eachAsync(this.src(), ...): failed, count
  saveEach,    \* eachAsync(items, ...) of _save: failed, count, len
  lookup,      \* per source: the lookup it waits for and its closure
  calls,       \* the calls made to get-res and viewport-list
  spawned,     \* number of child processes spawned
  events,      \* number of stderr chunks and of failures so far
  emitted,     \* payloads of the 'warn' events emitted on the orchestrator
  cbCalls,     \* the invocations of the callbacks given to run()
  runs         \* per call of run(): the lengths of _items, cbCalls, calls
               \* and _urls when it was called

vars == <<phantomjs, _src, _dest, _items, _sizes, _urls, stats, phase, srcI,
          srcEach, saveEach, lookup, calls, spawned, events, emitted,
          cbCalls, runs>>

(***************************************************************************)
(* lodash and regular expressions                                          *)
(***************************************************************************)
Range(s) == {s[k] : k \in 1..Len(s)}

RECURSIVE Uniq(_)
Uniq(s) ==
  IF s = <<>> THEN <<>>
  ELSE LET init == Uniq(SubSeq(s, 1, Len(s) - 1))
           last == s[Len(s)]
       IN IF last \in Range(init) THEN init ELSE Append(init, last)

Difference(a, b) ==
  LET keep(x) == x \notin Range(b) IN SelectSeq(a, keep)

\* /^\d{3,4}x\d{3,4}$/i
ResolutionRegex(tok) ==
  \E k \in 1..Len(tok) :
    /\ tok[k] \in {"x", "X"}
    /\ (k - 1) \in 3..4
    /\ (Len(tok) - k) \in 3..4
    /\ \A m \in (1..Len(tok)) \ {k} : tok[m] \in Digit

\* / phantomjs\[/.test(data)
BannerRegex(data) == \E k \in 1..Len(data) : data[k] = BANNER

\* /^WARN: /.test(data)
WarnRegex(data) == Len(data) > 0 /\ data[1] = WARN

\* data.replace(/^WARN: /, '')
StripWarn(data) == IF WarnRegex(data) THEN Tail(data) ELSE data

\* data.trim().length
TrimLength(data) == Len(SelectSeq(data, LAMBDA x : x # NL))

(***************************************************************************)
(* Initial state: new Pageres()                                            *)
(***************************************************************************)
Init ==
  /\ phantomjs \in BOOLEAN
  /\ _src = <<>>
  /\ _dest = Undefined
  /\ _items = <<>>
  /\ _sizes = <<>>
  /\ _urls = <<>>
  /\ stats = [screenshots |-> 0, urls |-> 0, set |-> FALSE]
  /\ phase = "idle"
  /\ srcI = 0
  /\ srcEach = [failed |-> FALSE, count |-> 0]
  /\ saveEach = [failed |-> FALSE, count |-> 0, len |-> 0]
  /\ lookup = <<>>
  /\ calls = <<>>
  /\ spawned = 0
  /\ events = 0
  /\ emitted = <<>>
  /\ cbCalls = <<>>
  /\ runs = <<>>

(***************************************************************************)
(* src(url, sizes, options) and dest(dir)                                  *)
(***************************************************************************)
Src(url, sizes) ==
  /\ phase = "idle"
  /\ Len(_src) < MaxSrc
  /\ _src' = Append(_src, [url |-> url, sizes |-> sizes])
  /\ UNCHANGED <<runs, phantomjs, _dest, _items, _sizes, _urls, stats, phase, srcI,
                 srcEach, saveEach, lookup, calls, spawned, events, emitted,
                 cbCalls>>

Dest(dir) ==
  /\ phase = "idle"
  /\ _dest' = dir
  /\ UNCHANGED <<runs, phantomjs, _src, _items, _sizes, _urls, stats, phase, srcI,
                 srcEach, saveEach, lookup, calls, spawned, events, emitted,
                 cbCalls>>

(***************************************************************************)
(* _generate(url, size, options) with _phantom(options): one child process *)
(* is spawned and its decoded stdout is the item.  An item carries the     *)
(* state of its save ("none" until _save reaches it) and the log of the    *)
(* chunks its child wrote on stderr with the event each one produced, and  *)
(* whether its child is running or has crashed.                            *)
(***************************************************************************)
Generate(i, url, size) ==
  [src |-> i, url |-> url, size |-> size, save |-> "none",
   unpiped |-> FALSE, log |-> <<>>, child |-> "running"]

GenerateAll(i, url, sizes) == [k \in 1..Len(sizes) |-> Generate(i, url, sizes[k])]

Outcome(err, n) == [err |-> err, n |-> n]

(***************************************************************************)
(* _save(items, cb): eachAsync starts mkdirp for every item; with no item  *)
(* eachAsync calls its final callback at once.                             *)
(***************************************************************************)
Save(items) ==
  IF Len(items) = 0
  THEN /\ cbCalls' = Append(cbCalls, Outcome(Null, Len(items)))
       /\ _items' = items
       /\ UNCHANGED saveEach
  ELSE /\ _items' = [j \in 1..Len(items) |-> [items[j] EXCEPT !.save = "mkdirp"]]
       /\ saveEach' = [failed |-> FALSE, count |-> 0, len |-> Len(items)]
       /\ UNCHANGED cbCalls

(***************************************************************************)
(* The final callback of the source iteration of run().                    *)
(***************************************************************************)
\* the final callback of run() without the test of the destination
RunCallback_AlwaysSave(err, items) ==
  IF err # Null
  THEN /\ cbCalls' = Append(cbCalls, Outcome(err, 0))
       /\ _items' = items
       /\ UNCHANGED <<stats, saveEach>>
  ELSE /\ stats' = [screenshots |-> Len(Uniq(_sizes')),
                    urls |-> Len(Uniq(_urls')), set |-> TRUE]
       /\ Save(items)

RunCallback(err, items) ==
  IF err # Null
  THEN /\ cbCalls' = Append(cbCalls, Outcome(err, 0))
       /\ _items' = items
       /\ UNCHANGED <<stats, saveEach>>
  ELSE /\ stats' = [screenshots |-> Len(Uniq(_sizes')),
                    urls |-> Len(Uniq(_urls')), set |-> TRUE]
       /\ IF _dest = Undefined
          THEN /\ cbCalls' = Append(cbCalls, Outcome(Null, Len(items)))
               /\ _items' = items
               /\ UNCHANGED saveEach
          ELSE Save(items)

(***************************************************************************)
(* each-async: the callback handed to the iteratee of a source.  The first *)
(* error wins; the final callback runs when every item has called back.    *)
(* It reads _sizes' and _urls', which the calling action sets.             *)
(***************************************************************************)
EachSrcCallback(err, items) ==
  IF srcEach.failed
  THEN /\ _items' = items
       /\ UNCHANGED <<srcEach, stats, saveEach, cbCalls>>
  ELSE IF err # Null
  THEN /\ srcEach' = [srcEach EXCEPT !.failed = TRUE]
       /\ RunCallback(err, items)
  ELSE IF srcEach.count + 1 = Len(_src)
  THEN /\ srcEach' = [srcEach EXCEPT !.count = srcEach.count + 1]
       /\ RunCallback(Null, items)
  ELSE /\ srcEach' = [srcEach EXCEPT !.count = srcEach.count + 1]
       /\ _items' = items
       /\ UNCHANGED <<stats, saveEach, cbCalls>>

(***************************************************************************)
(* run(cb)                                                                 *)
(***************************************************************************)
\* what run() notes of the lists of the orchestrator when it is called
RunRecord ==
  [items |-> Len(_items), cbs |-> Len(cbCalls), calls |-> Len(calls),
   urls |-> Len(_urls)]

\* run() is called on a new orchestrator, or again when the callback of the
\* previous call has reported success.  A second call is modelled for an
\* orchestrator without destination.
CanRun ==
  /\ Len(runs) < MaxRuns
  /\ \/ phase = "idle"
     \/ /\ phase = "running"
        /\ runs # <<>>
        /\ _dest = Undefined
        /\ \E k \in (runs[Len(runs)].cbs + 1)..Len(cbCalls) : cbCalls[k].err = Null

\* run() starting the iteration at the last source instead of the first
RunSources_StartAtLast ==
  /\ runs' = Append(runs, RunRecord)
  /\ IF Len(_src) = 0
     THEN /\ phase' = "running"
          /\ UNCHANGED <<_sizes, _urls, srcI, lookup>>
          /\ srcEach' = [failed |-> FALSE, count |-> 0]
          /\ RunCallback(Null, _items)
     ELSE /\ phase' = "iterating"
          /\ srcI' = Len(_src)
          /\ srcEach' = [failed |-> FALSE, count |-> 0]
          /\ lookup' = [i \in 1..Len(_src) |->
                          [kind |-> "none", status |-> "idle", sizes |-> <<>>,
                           keywords |-> <<>>, res |-> <<>>]]
          /\ UNCHANGED <<_items, _sizes, _urls, stats, saveEach, cbCalls>>
  /\ UNCHANGED <<phantomjs, _src, _dest, calls, spawned, events, emitted>>

RunSources ==
  /\ runs' = Append(runs, RunRecord)
  /\ IF Len(_src) = 0
     THEN /\ phase' = "running"
          /\ UNCHANGED <<_sizes, _urls, srcI, lookup>>
          /\ srcEach' = [failed |-> FALSE, count |-> 0]
          /\ RunCallback(Null, _items)
     ELSE /\ phase' = "iterating"
          /\ srcI' = 1
          /\ srcEach' = [failed |-> FALSE, count |-> 0]
          /\ lookup' = [i \in 1..Len(_src) |->
                          [kind |-> "none", status |-> "idle", sizes |-> <<>>,
                           keywords |-> <<>>, res |-> <<>>]]
          /\ UNCHANGED <<_items, _sizes, _urls, stats, saveEach, cbCalls>>
  /\ UNCHANGED <<phantomjs, _src, _dest, calls, spawned, events, emitted>>

\* run() without the test of the renderer's path
Run_NoPhantomTest ==
  /\ CanRun
  /\ RunSources

Run ==
  /\ CanRun
  /\ IF ~phantomjs
     THEN /\ cbCalls' = Append(cbCalls, Outcome(Err("PhantomJS install failed"), 0))
          /\ phase' = "running"
          /\ runs' = Append(runs, RunRecord)
          /\ UNCHANGED <<phantomjs, _src, _dest, _items, _sizes, _urls, stats,
                         srcI, srcEach, saveEach, lookup, calls, spawned,
                         events, emitted>>
     ELSE RunSources

\* the test of run() that sends a source to the popular-resolutions lookup
UsesResolution(sizes, keywords) ==
  Len(sizes) = 0 /\ W3counter \in Range(keywords)

\* the test of run() that sends a source to the viewport lookup
UsesViewport(sizes, keywords) == Len(keywords) > 0

(***************************************************************************)
(* The iteratee of run() for the source at srcI.  eachAsync calls it for   *)
(* every source in turn without waiting for the callbacks.                 *)
(***************************************************************************)
Iteratee ==
  /\ phase = "iterating"
  /\ LET i == srcI
         src == _src[i]
         sizes == Uniq(SelectSeq(src.sizes, ResolutionRegex))
         keywords == Difference(src.sizes, sizes)
     IN IF src.url = Undefined
        THEN /\ cbCalls' = Append(cbCalls, Outcome(Err("URL required"), 0))
             /\ UNCHANGED <<_items, _sizes, _urls, stats, srcEach, saveEach,
                            lookup, calls, spawned>>
        ELSE /\ _urls' = Append(_urls, src.url)
             /\ IF UsesResolution(sizes, keywords)
                THEN /\ lookup' = [lookup EXCEPT ![i] =
                                     [kind |-> "getRes", status |-> "pending",
                                      sizes |-> sizes, keywords |-> keywords,
                                      res |-> <<>>]]
                     /\ calls' = Append(calls, [fn |-> "getRes", src |-> i,
                                                args |-> <<>>])
                     /\ UNCHANGED <<_items, _sizes, stats, srcEach, saveEach,
                                    spawned, cbCalls>>
                ELSE IF UsesViewport(sizes, keywords)
                THEN /\ lookup' = [lookup EXCEPT ![i] =
                                     [kind |-> "viewport", status |-> "pending",
                                      sizes |-> sizes, keywords |-> keywords,
                                      res |-> <<>>]]
                     /\ calls' = Append(calls, [fn |-> "viewport", src |-> i,
                                                args |-> keywords])
                     /\ UNCHANGED <<_items, _sizes, stats, srcEach, saveEach,
                                    spawned, cbCalls>>
                ELSE /\ Len(_items) + Len(sizes) <= MaxJobs
                     /\ _sizes' = _sizes \o sizes
                     /\ spawned' = spawned + Len(sizes)
                     /\ EachSrcCallback(Null, _items \o GenerateAll(i, src.url, sizes))
                     /\ UNCHANGED <<lookup, calls>>
  /\ srcI' = srcI + 1
  /\ phase' = IF srcI = Len(_src) THEN "running" ELSE "iterating"
  /\ UNCHANGED <<runs, phantomjs, _src, _dest, events, emitted>>

(***************************************************************************)
(* _resolution: the callback of get-res.  memoize() wraps get-res anew on  *)
(* every call of _resolution, so every call reaches get-res.  The field    *)
(* _resolutions that the callback sets is read nowhere and is left out.    *)
(***************************************************************************)
\* the jobs of _resolution with the result deduplicated
ResolutionSizes_Uniq(res) == Uniq(res)

ResolutionSizes(res) == res

GetResCallback(i, err, res) ==
  /\ phase = "running"
  /\ i \in 1..Len(lookup)
  /\ lookup[i].kind = "getRes"
  /\ lookup[i].status = "pending"
  /\ IF err # Null
     THEN /\ events < MaxEvents
          /\ events' = events + 1
          /\ lookup' = [lookup EXCEPT ![i].status = "failed"]
          /\ UNCHANGED <<_sizes, _urls, spawned>>
          /\ EachSrcCallback(err, _items)
     ELSE /\ Len(_items) + Len(ResolutionSizes(res)) <= MaxJobs
          /\ lookup' = [lookup EXCEPT ![i].status = "done", ![i].res = res]
          /\ _sizes' = _sizes \o res
          /\ spawned' = spawned + Len(ResolutionSizes(res))
          /\ UNCHANGED <<_urls, events>>
          /\ EachSrcCallback(Null,
               _items \o GenerateAll(i, _src[i].url, ResolutionSizes(res)))
  /\ UNCHANGED <<runs, phantomjs, _src, _dest, phase, srcI, calls, emitted>>

(***************************************************************************)
(* _viewport: the callback of viewport-list.  The sizes of the result are  *)
(* pushed on the explicit sizes of the source; the jobs are made from the  *)
(* deduplicated list.                                                      *)
(***************************************************************************)
\* the jobs of _viewport without the deduplication
ViewportSizes_NoUniq(sizes, res) == sizes \o res

ViewportSizes(sizes, res) == Uniq(sizes \o res)

ViewportCallback(i, err, res) ==
  /\ phase = "running"
  /\ i \in 1..Len(lookup)
  /\ lookup[i].kind = "viewport"
  /\ lookup[i].status = "pending"
  /\ IF err # Null
     THEN /\ events < MaxEvents
          /\ events' = events + 1
          /\ lookup' = [lookup EXCEPT ![i].status = "failed"]
          /\ UNCHANGED <<_sizes, _urls, spawned>>
          /\ EachSrcCallback(err, _items)
     ELSE LET jobs == ViewportSizes(lookup[i].sizes, res)
          IN /\ Len(_items) + Len(jobs) <= MaxJobs
             /\ lookup' = [lookup EXCEPT ![i].status = "done", ![i].res = res]
             /\ _sizes' = _sizes \o res
             /\ spawned' = spawned + Len(jobs)
             /\ UNCHANGED <<_urls, events>>
             /\ EachSrcCallback(Null, _items \o GenerateAll(i, _src[i].url, jobs))
  /\ UNCHANGED <<runs, phantomjs, _src, _dest, phase, srcI, calls, emitted>>

(***************************************************************************)
(* each-async in _save: the callback handed to the iteratee of item j, and *)
(* the final callback of _save.  An item can call back a second time (an   *)
(* 'error' of the item after the 'finish' of its write).  Releases of      *)
(* each-async differ there: some wrap the callback so that the second call *)
(* does nothing, some count it like a first one; both are possible.        *)
(***************************************************************************)
SaveCallback(err) ==
  IF err # Null
  THEN cbCalls' = Append(cbCalls, Outcome(err, 0))
  ELSE cbCalls' = Append(cbCalls, Outcome(Null, saveEach.len))

CalledBack(item) == item.save \in {"finished", "failed", "nodir"} \/ item.unpiped

\* each-async calling the final callback when the first item is done
EachSaveCount_FirstDone(err) ==
  IF saveEach.failed
  THEN UNCHANGED <<saveEach, cbCalls>>
  ELSE IF err # Null
  THEN /\ saveEach' = [saveEach EXCEPT !.failed = TRUE]
       /\ SaveCallback(err)
  ELSE IF saveEach.count = 0
  THEN /\ saveEach' = [saveEach EXCEPT !.count = saveEach.count + 1]
       /\ SaveCallback(Null)
  ELSE /\ saveEach' = [saveEach EXCEPT !.count = saveEach.count + 1]
       /\ UNCHANGED cbCalls

\* each-async counting a failed item as done and not noting the failure
EachSaveCount_NoFailed(err) ==
  IF err # Null
  THEN /\ saveEach' = [saveEach EXCEPT !.count = saveEach.count + 1]
       /\ SaveCallback(err)
  ELSE IF saveEach.count + 1 = saveEach.len
  THEN /\ saveEach' = [saveEach EXCEPT !.count = saveEach.count + 1]
       /\ SaveCallback(Null)
  ELSE /\ saveEach' = [saveEach EXCEPT !.count = saveEach.count + 1]
       /\ UNCHANGED cbCalls

EachSaveCount(err) ==
  IF saveEach.failed
  THEN UNCHANGED <<saveEach, cbCalls>>
  ELSE IF err # Null
  THEN /\ saveEach' = [saveEach EXCEPT !.failed = TRUE]
       /\ SaveCallback(err)
  ELSE IF saveEach.count + 1 = saveEach.len
  THEN /\ saveEach' = [saveEach EXCEPT !.count = saveEach.count + 1]
       /\ SaveCallback(Null)
  ELSE /\ saveEach' = [saveEach EXCEPT !.count = saveEach.count + 1]
       /\ UNCHANGED cbCalls

EachSaveCallback(j, err) ==
  IF CalledBack(_items[j])
  THEN \/ UNCHANGED <<saveEach, cbCalls>>
       \/ EachSaveCount(err)
  ELSE EachSaveCount(err)

\* the listeners that _save puts on an item are there once mkdirp succeeded
Listening(item) == item.save \in {"piping", "finished", "failed"}

(***************************************************************************)
(* _save: the callback of mkdirp for item j.                               *)
(***************************************************************************)
MkdirpCallback(j, err) ==
  /\ phase = "running"
  /\ j \in 1..Len(_items)
  /\ _items[j].save = "mkdirp"
  /\ IF err # Null
     THEN /\ events < MaxEvents
          /\ events' = events + 1
          /\ _items' = [_items EXCEPT ![j].save = "nodir"]
          /\ EachSaveCallback(j, err)
     ELSE /\ _items' = [_items EXCEPT ![j].save = "piping"]
          /\ UNCHANGED <<saveEach, cbCalls, events>>
  /\ UNCHANGED <<runs, phantomjs, _src, _dest, _sizes, _urls, stats, phase, srcI,
                 srcEach, lookup, calls, spawned, emitted>>

\* 'finish' of the write stream of item j
WriteFinish(j) ==
  /\ phase = "running"
  /\ j \in 1..Len(_items)
  /\ _items[j].save = "piping"
  /\ ~_items[j].unpiped
  /\ _items' = [_items EXCEPT ![j].save = "finished"]
  /\ EachSaveCallback(j, Null)
  /\ UNCHANGED <<runs, phantomjs, _src, _dest, _sizes, _urls, stats, phase, srcI,
                 srcEach, lookup, calls, spawned, events, emitted>>

\* 'error' of the write stream of item j
WriteError(j) ==
  /\ phase = "running"
  /\ j \in 1..Len(_items)
  /\ _items[j].save = "piping"
  /\ events < MaxEvents
  /\ events' = events + 1
  /\ _items' = [_items EXCEPT ![j].save = "failed"]
  /\ EachSaveCallback(j, Err("EIO"))
  /\ UNCHANGED <<runs, phantomjs, _src, _dest, _sizes, _urls, stats, phase, srcI,
                 srcEach, lookup, calls, spawned, emitted>>

(***************************************************************************)
(* _phantom: the 'data' handler of cp.stderr of item j.  An 'error' event  *)
(* on a stream without a listener is thrown by the emitter: the exception  *)
(* is uncaught and ends the process.  With the listener of _save the       *)
(* stream is unpiped from the child's stdout and the item's callback gets  *)
(* the error.                                                              *)
(***************************************************************************)
Classify(data) ==
  IF BannerRegex(data) THEN "none"
  ELSE IF WarnRegex(data) THEN "warn"
  ELSE IF TrimLength(data) > 0 THEN "error"
  ELSE "none"

StderrData(j, data) ==
  /\ phase = "running"
  /\ j \in 1..Len(_items)
  /\ events < MaxEvents
  /\ events' = events + 1
  /\ LET type == Classify(data)
         payload == IF type = "warn" THEN StripWarn(data)
                    ELSE IF type = "error" THEN data ELSE <<>>
         entry == [data |-> data, type |-> type, payload |-> payload,
                   heard |-> Listening(_items[j])]
         logged == [_items EXCEPT ![j].log = Append(@, entry)]
     IN IF type = "warn"
        THEN /\ _items' = logged
             /\ emitted' = IF Listening(_items[j]) THEN Append(emitted, payload)
                           ELSE emitted
             /\ UNCHANGED <<phase, saveEach, cbCalls>>
        ELSE IF type = "error"
        THEN IF Listening(_items[j])
             THEN /\ _items' = [logged EXCEPT ![j].unpiped = TRUE]
                  /\ EachSaveCallback(j, NewError(data))
                  /\ UNCHANGED <<phase, emitted>>
             ELSE /\ _items' = logged
                  /\ phase' = "crashed"
                  /\ UNCHANGED <<emitted, saveEach, cbCalls>>
        ELSE /\ _items' = logged
             /\ UNCHANGED <<phase, emitted, saveEach, cbCalls>>
  /\ UNCHANGED <<runs, phantomjs, _src, _dest, _sizes, _urls, stats, srcI, srcEach,
                 lookup, calls, spawned>>

(***************************************************************************)
(* _phantom: the child process of item j crashes or exits abnormally       *)
(* without writing on stderr.  _phantom registers no 'exit' or 'error'     *)
(* handler on cp: the orchestrator takes no step, and the child's stdout   *)
(* ends as it does after a normal exit.  A child whose stdout has ended    *)
(* and whose file is written has exited already.                           *)
(***************************************************************************)
ChildCrash(j) ==
  /\ phase = "running"
  /\ j \in 1..Len(_items)
  /\ _items[j].child = "running"
  /\ _items[j].save # "finished"
  /\ events < MaxEvents
  /\ events' = events + 1
  /\ _items' = [_items EXCEPT ![j].child = "crashed"]
  /\ UNCHANGED <<runs, phantomjs, _src, _dest, _sizes, _urls, stats, phase, srcI,
                 srcEach, saveEach, lookup, calls, spawned, emitted, cbCalls>>

(***************************************************************************)
(* The specification                                                       *)
(***************************************************************************)
Next ==
  \/ \E a \in SrcArgs : Src(a.url, a.sizes)
  \/ Dest("dist")
  \/ Run
  \/ Iteratee
  \/ \E i \in 1..MaxSrc : GetResCallback(i, Err("ENOTFOUND"), <<>>)
  \/ \E i \in 1..MaxSrc, res \in GetResResults : GetResCallback(i, Null, res)
  \/ \E i \in 1..MaxSrc : ViewportCallback(i, Err("ENOTFOUND"), <<>>)
  \/ \E i \in 1..MaxSrc, res \in ViewportResults : ViewportCallback(i, Null, res)
  \/ \E j \in 1..MaxJobs : MkdirpCallback(j, Err("EACCES"))
  \/ \E j \in 1..MaxJobs : MkdirpCallback(j, Null)
  \/ \E j \in 1..MaxJobs : WriteFinish(j)
  \/ \E j \in 1..MaxJobs : WriteError(j)
  \/ \E j \in 1..MaxJobs, data \in DiagChunks : StderrData(j, data)
  \/ \E j \in 1..MaxJobs : ChildCrash(j)

Spec == Init /\ [][Next]_vars

TypeOK ==
  /\ phase \in {"idle", "iterating", "running", "crashed"}
  /\ Len(_src) <= MaxSrc
  /\ spawned = Len(_items)

(***************************************************************************)
(* Vocabulary of the properties                                            *)
(***************************************************************************)
Ran == phase \in {"running", "crashed"}

MissingUrl == \E i \in 1..Len(_src) : _src[i].url = Undefined

\* the lengths of the lists when the current call of run() was made
Base ==
  IF runs = <<>> THEN [items |-> 0, cbs |-> 0, calls |-> 0, urls |-> 0]
  ELSE runs[Len(runs)]

\* the invocations of the callback, the streams and the lookup calls of the
\* current call of run()
RunOutcomes == SubSeq(cbCalls, Base.cbs + 1, Len(cbCalls))

RunItems == SubSeq(_items, Base.items + 1, Len(_items))

RunLookups == SubSeq(calls, Base.calls + 1, Len(calls))

Reported(err) == \E k \in 1..Len(RunOutcomes) : RunOutcomes[k].err = err

ReportedSuccess == Reported(Null)

ReportedError == \E k \in 1..Len(RunOutcomes) : RunOutcomes[k].err # Null

\* the jobs of source i in the current run, in the order of their creation
JobsOf(i) == SelectSeq(RunItems, LAMBDA it : it.src = i)

JobSizes(i) == [k \in 1..Len(JobsOf(i)) |-> JobsOf(i)[k].size]

\* the explicit resolutions and the keywords among the tokens of source i
Explicit(i) == SelectSeq(_src[i].sizes, ResolutionRegex)

Keywords(i) == SelectSeq(_src[i].sizes, LAMBDA t : ~ResolutionRegex(t))

\* the chunks delivered on stderr, as pairs of an item and a log index
Entries == {e \in (1..Len(_items)) \X (1..MaxEvents) :
              e[2] <= Len(_items[e[1]].log)}

Entry(e) == _items[e[1]].log[e[2]]

\* no lookup, mkdirp or write has failed
NoFailure ==
  /\ \A i \in 1..Len(lookup) : lookup[i].status # "failed"
  /\ \A j \in 1..Len(_items) : _items[j].save \notin {"nodir", "failed"}

\* a non-blank diagnostic that is neither the banner nor WARN-prefixed
Fatal(data) == TrimLength(data) > 0 /\ ~BannerRegex(data) /\ ~WarnRegex(data)

(***************************************************************************)
(* C1: when some registered source has no URL, run() reports an error and  *)
(* no renderer subprocess is spawned in that run, not even for the sources *)
(* registered before it.                                                   *)
(***************************************************************************)
C1_MissingUrlSpawnsNothing ==
  (Ran /\ MissingUrl) => (spawned = 0 /\ ReportedError)

(***************************************************************************)
(* C2: run() invokes the caller's callback at most once.                   *)
(***************************************************************************)
C2_CallbackAtMostOnce ==
  \A r \in 1..Len(runs) :
    LET last == IF r = Len(runs) THEN Len(cbCalls) ELSE runs[r + 1].cbs
    IN last - runs[r].cbs <= 1

(***************************************************************************)
(* C3: a fatal diagnostic of a job's subprocess yields an 'error' event on *)
(* the job's stream and aborts the run: the callback reports that error    *)
(* and does not report success, with or without a destination and whenever *)
(* the diagnostic arrives.                                                 *)
(***************************************************************************)
C3_FatalDiagnosticAbortsRun ==
  \A e \in Entries :
    Fatal(Entry(e).data) =>
      /\ Entry(e).type = "error"
      /\ Reported(NewError(Entry(e).data))
      /\ ~ReportedSuccess

(***************************************************************************)
(* C4: a WARN-prefixed diagnostic yields a 'warn' event on the job's       *)
(* stream with the prefix stripped and no 'error' event, and a run whose   *)
(* subprocesses write only warnings and banners does not fail.             *)
(***************************************************************************)
C4_WarnDiagnosticYieldsWarnEvent ==
  /\ \A e \in Entries :
       WarnRegex(Entry(e).data) =>
         /\ Entry(e).type = "warn"
         /\ Entry(e).payload = Tail(Entry(e).data)
  /\ ( /\ \A e \in Entries :
            WarnRegex(Entry(e).data) \/ BannerRegex(Entry(e).data)
       /\ NoFailure
       /\ ~MissingUrl
       /\ phantomjs )
     => (phase # "crashed" /\ ~ReportedError)

(***************************************************************************)
(* C5: with a destination, every 'warn' event of a stream of the run is    *)
(* emitted again, unchanged, on the orchestrator, whenever it arrives.     *)
(***************************************************************************)
C5_WarnEventsBubbleUp ==
  _dest # Undefined =>
    \A e \in Entries :
      Entry(e).type = "warn" => Entry(e).payload \in Range(emitted)

(***************************************************************************)
(* C6: without the renderer executable, run() calls back at once with an   *)
(* error; nothing is spawned, no lookup is made, no source is processed.   *)
(***************************************************************************)
C6_NoRendererFailsAtOnce ==
  (~phantomjs /\ Ran) =>
    /\ cbCalls = <<Outcome(Err("PhantomJS install failed"), 0)>>
    /\ spawned = 0
    /\ calls = <<>>
    /\ lookup = <<>>
    /\ srcI = 0
    /\ _urls = <<>>
    /\ _items = <<>>

C6_Witness ==
  ~phantomjs /\ Ran /\ Len(_src) >= 2 /\ Len(cbCalls) = 1

(***************************************************************************)
(* C7: after a successful run stats.screenshots is the number of distinct  *)
(* sizes of the jobs of the run.                                           *)
(***************************************************************************)
C7_ScreenshotsCountsJobSizes ==
  ReportedSuccess =>
    stats.screenshots = Cardinality({RunItems[j].size : j \in 1..Len(RunItems)})

(***************************************************************************)
(* C8: a source with an explicit resolution and a device keyword gets one  *)
(* job for each element of the union of its explicit resolutions and the   *)
(* sizes of the viewport lookup, and no other job.                         *)
(***************************************************************************)
C8_MixedSourceJobs ==
  \A i \in 1..Len(lookup) :
    ( /\ _src[i].url # Undefined
      /\ Explicit(i) # <<>>
      /\ \E k \in 1..Len(Keywords(i)) : Keywords(i)[k] # W3counter )
    => IF lookup[i].kind = "viewport" /\ lookup[i].status = "done"
       THEN LET union == Range(Explicit(i)) \cup Range(lookup[i].res)
            IN /\ Range(JobSizes(i)) = union
               /\ Len(JobsOf(i)) = Cardinality(union)
       ELSE JobsOf(i) = <<>>

C8_Witness ==
  \E i \in 1..Len(lookup) :
    /\ Explicit(i) # <<>>
    /\ Keywords(i) = <<Iphone5s>>
    /\ lookup[i].status = "done"
    /\ lookup[i].res = <<R1024x768>>
    /\ Len(JobsOf(i)) = 1

(***************************************************************************)
(* C9: a source whose only token is the popular-resolutions keyword gets   *)
(* jobs with the sizes of the popular-resolutions lookup, in the order of  *)
(* the result, and makes no viewport lookup.                               *)
(***************************************************************************)
C9_PopularOnlyJobs ==
  \A i \in 1..Len(lookup) :
    (_src[i].url # Undefined /\ _src[i].sizes = <<W3counter>>) =>
      /\ \A c \in 1..Len(calls) :
           calls[c].src = i => calls[c].fn = "getRes"
      /\ IF lookup[i].kind = "getRes" /\ lookup[i].status = "done"
         THEN JobSizes(i) = lookup[i].res
         ELSE JobsOf(i) = <<>>

C9_Witness ==
  \E i \in 1..Len(lookup) :
    /\ _src[i].sizes = <<W3counter>>
    /\ lookup[i].status = "done"
    /\ lookup[i].res = <<R1024x768, R320x568>>
    /\ JobSizes(i) = <<R1024x768, R320x568>>

(***************************************************************************)
(* C10: no two jobs of one source have the same size, on every resolution  *)
(* path, also when a lookup result repeats a resolution.                   *)
(***************************************************************************)
C10_JobSizesDistinct ==
  \A a, b \in 1..Len(RunItems) :
    (a # b /\ RunItems[a].src = RunItems[b].src)
      => RunItems[a].size # RunItems[b].size

(***************************************************************************)
(* C11: the list of streams of a successful run is ordered by the order of *)
(* registration of the sources: a stream of an earlier source precedes     *)
(* every stream of a later source, whatever the order in which the lookups *)
(* complete.                                                               *)
(***************************************************************************)
C11_StreamsInRegistrationOrder ==
  ReportedSuccess =>
    \A a, b \in 1..Len(RunItems) :
      RunItems[a].src < RunItems[b].src => a < b

(***************************************************************************)
(* C12: with a destination, run() reports success only when the write of   *)
(* every stream of the run has finished, and the list it passes is the     *)
(* full list of the streams; never while a write is pending or has failed. *)
(***************************************************************************)
C12_SuccessAfterAllWrites ==
  _dest # Undefined =>
    \A k \in 1..Len(cbCalls) :
      cbCalls[k].err = Null =>
        /\ cbCalls[k].n = Len(_items)
        /\ \A j \in 1..Len(_items) : _items[j].save = "finished"

C12_Witness ==
  /\ _dest # Undefined
  /\ ReportedSuccess
  /\ Len(_items) = 2
  /\ \A j \in 1..Len(_items) : _items[j].save = "finished"

(***************************************************************************)
(* C13: without a destination, a run whose sources all resolve passes the  *)
(* full list of streams to the callback and the save stage is not entered: *)
(* no directory is made and no write stream is opened.                     *)
(***************************************************************************)
C13_NoDestinationNoSave ==
  (_dest = Undefined /\ phantomjs /\ Ran) =>
    /\ \A j \in 1..Len(_items) : _items[j].save = "none"
    /\ saveEach.len = 0
    /\ (srcEach.count = Len(_src) /\ ~srcEach.failed) =>
         RunOutcomes = <<Outcome(Null, Len(_items))>>

C13_Witness ==
  /\ _dest = Undefined
  /\ RunOutcomes = <<Outcome(Null, 2)>>
  /\ Len(RunItems) = 2
  /\ Len(_src) = 2
  /\ \E i \in 1..Len(lookup) : lookup[i].status = "done"
  /\ \A j \in 1..Len(_items) : _items[j].save = "none"

\* source k's step has begun in the current run: a lookup was issued for it
\* or a job of it was created
Begun(k) ==
  \/ \E c \in 1..Len(RunLookups) : RunLookups[c].src = k
  \/ JobsOf(k) # <<>>

\* the number of sources whose step was started in the current run: a step
\* either reports the missing URL or notes the URL in _urls
Started ==
  (Len(_urls) - Base.urls)
    + Cardinality({k \in 1..Len(RunOutcomes) :
                     RunOutcomes[k].err = Err("URL required")})

C15_ChildCrashFailsRun ==
  \A j \in 1..Len(_items) :
    (_dest # Undefined /\ _items[j].child = "crashed" /\ _items[j].log = <<>>)
      => ~ReportedSuccess

(***************************************************************************)
(* C16: the streams that a second call of run() on the same orchestrator   *)
(* returns are the streams created during that call, one per source and    *)
(* resolved size, and none of an earlier call.                             *)
(***************************************************************************)
C16_SecondRunReturnsItsOwnStreams ==
  \A k \in 1..Len(RunOutcomes) :
    RunOutcomes[k].err = Null => RunOutcomes[k].n = Len(RunItems)

(***************************************************************************)
(* C17: within one run identical lookup calls share one result: the        *)
(* popular-resolutions lookup is invoked at most once, and the viewport    *)
(* lookup at most once for one keyword list.                               *)
(***************************************************************************)
C17_IdenticalLookupsInvokedOnce ==
  \A c, d \in 1..Len(RunLookups) :
    (RunLookups[c].fn = RunLookups[d].fn /\ RunLookups[c].args = RunLookups[d].args)
      => c = d

\* source i has no explicit resolution and exactly the popular keyword
PopularOnly(i) == Explicit(i) = <<>> /\ Keywords(i) = <<W3counter>>

(***************************************************************************)
(* C18: the popular-resolutions lookup is used for a source only when it   *)
(* has no explicit resolution and its keywords are exactly the popular     *)
(* keyword; every other source with keywords gets the viewport lookup,     *)
(* called with its keyword list.                                           *)
(***************************************************************************)
C18_PopularLookupOnlyForMarkerAlone ==
  \A c \in 1..Len(RunLookups) :
    LET i == RunLookups[c].src
    IN IF PopularOnly(i)
       THEN RunLookups[c].fn = "getRes"
       ELSE RunLookups[c].fn = "viewport" /\ RunLookups[c].args = Keywords(i)

\* the lines of a chunk: its parts between the line ends
RECURSIVE Lines(_)
Lines(data) ==
  IF \A k \in 1..Len(data) : data[k] # NL THEN <<data>>
  ELSE LET n == CHOOSE k \in 1..Len(data) :
                  data[k] = NL /\ \A h \in 1..(k - 1) : data[h] # NL
       IN <<SubSeq(data, 1, n - 1)>> \o Lines(SubSeq(data, n + 1, Len(data)))

(***************************************************************************)
(* C19: the standard error of a subprocess is classified line by line:     *)
(* every fatal line of a delivered chunk yields an 'error' event with that *)
(* line's text and every WARN-prefixed line a 'warn' event with the prefix *)
(* stripped, whatever other lines the chunk holds.                         *)
(***************************************************************************)
C19_StderrClassifiedByLine ==
  \A e \in Entries :
    LET lines == Lines(Entry(e).data)
    IN \A k \in 1..Len(lines) :
         /\ Fatal(lines[k]) =>
              (Entry(e).type = "error" /\ Entry(e).payload = lines[k])
         /\ WarnRegex(lines[k]) =>
              (Entry(e).type = "warn" /\ Entry(e).payload = StripWarn(lines[k]))

\* the call of run() that invocation k of the callback belongs to
RunOf(k) == Cardinality({r \in 1..Len(runs) : runs[r].cbs < k})

(***************************************************************************)
(* C20: once the callback of a run was invoked with an error, no later     *)
(* invocation for the same run reports success, also when lookups and      *)
(* saves that were started before the error complete after it.             *)
(***************************************************************************)
C20_NoSuccessAfterError ==
  \A k, m \in 1..Len(cbCalls) :
    (k < m /\ RunOf(k) = RunOf(m) /\ cbCalls[k].err # Null)
      => cbCalls[m].err # Null

\* a save failed first and the write of another stream finished after it
C20_Witness ==
  /\ _dest # Undefined
  /\ Len(RunOutcomes) = 1
  /\ ReportedError
  /\ saveEach.failed
  /\ saveEach.count = 0
  /\ \E a, b \in 1..Len(_items) :
       /\ _items[a].save = "finished"
       /\ _items[b].save \in {"nodir", "failed"} \/ _items[b].unpiped

====
